---- MODULE Spec2Model ----
(***************************************************************************)
(* Model of accumulator_bot_mock.py: the mock bookmaker (MockBettingAPI),  *)
(* retry_on_exception, choose_matches and AccumulatorBot.run_once.         *)
(*                                                                         *)
(* Odds are integers in hundredths (1.20 is 120).  One step of the model   *)
(* is one remote call attempt together with the local code that follows    *)
(* its return up to the next remote call, or one backoff sleep.            *)
(***************************************************************************)
EXTENDS Integers, Sequences, FiniteSets, TLC

\* ---------------------------------------------------------------- constants
MAX_LEGS == 4
MIN_ODDS == 120
MAX_RETRIES == 5
FIRST_BET_ID == 1000
ODDS_FLOOR == 105
MATCH_SELECTION_MODE == "top"

\* ------------------------------------------------------------------- bounds
\* processes that run main at the same time
NumProcs == 2
\* matches returned by one get_available_matches call (the mock builds 20)
NumMatches == 3
\* odds-change events the service may simulate within one run
MaxOddsChanges == 1
\* longest events list handed to choose_matches on its own
MaxEvents == 3
\* largest max_retries handed to retry_on_exception on its own
MaxAttempts == 4

\* sample values of the random draws and of the inputs
OddsValues == {110, 125}
SelectOdds == {110, 120, 150}
StartTimes == {9, 10}
Factors == {90, 112}
Tokens == {"session-10000"}
Usernames == {"", "test_user"}
Passwords == {"", "test_pass"}
Stakes == {-5, 0, 5}
Modes == {"top", "random", "from_feed"}
FnErrors == {"E1", "E2"}
FnValues == {"v1", "v2"}

\* ------------------------------------------------------------------ helpers
Min(a, b) == IF a < b THEN a ELSE b
Max(a, b) == IF a > b THEN a ELSE b
Range(s) == {s[i] : i \in 1..Len(s)}

\* round(x) of x = n / d to the nearest integer, ties to even, as round() does
RoundDiv(n, d) ==
    LET q == n \div d
        r == n % d
    IN  IF 2 * r < d THEN q
        ELSE IF 2 * r > d THEN q + 1
        ELSE IF q % 2 = 0 THEN q ELSE q + 1

\* an exception object: its class, its message and the call that created it
Exc(cls, msg, seq) == [cls |-> cls, msg |-> msg, seq |-> seq]
NoExc == Exc("", "", 0)

NoToken == ""
NoBetId == <<>>
\* f"B{n}"
BetIdOf(n) == <<"B", n>>
NoBet == [bet_id |-> NoBetId, user |-> "", legs |-> <<>>, stake |-> 0, status |-> ""]
NoPlacement == [legs |-> <<>>, stake |-> 0]
\* os.getpid() of the processes; no file is 0
Procs == 1..NumProcs
NoFile == 0
\* the pid a run that was killed left in the lock file
StalePid == NumProcs + 1

\* datetime.isoformat() of a start time given in minutes: two zero-padded digits
IsoFormat(t) == <<t \div 10, t % 10>>
\* str < str, lexicographic
StrLess(a, b) ==
    \E i \in 1..Min(Len(a), Len(b)) + 1 :
        /\ \A j \in 1..(i - 1) : a[j] = b[j]
        /\ \/ i = Len(a) + 1 /\ i <= Len(b)
           \/ i <= Len(a) /\ i <= Len(b) /\ a[i] < b[i]

\* ----------------------------------------------------------- choose_matches
valid_leg_any_odds(m) == m.available

\* the filter of the list comprehension
valid_leg(m) == m.available /\ m.odds >= MIN_ODDS

\* list[:n]
py_slice_plus_one(s, n) ==
    IF n >= 0 THEN SubSeq(s, 1, Min(n + 1, Len(s)))
    ELSE SubSeq(s, 1, Max(0, Len(s) + n))

py_slice(s, n) ==
    IF n >= 0 THEN SubSeq(s, 1, Min(n, Len(s)))
    ELSE SubSeq(s, 1, Max(0, Len(s) + n))

sort_insert_unstable(s, x, before) ==
    LET later == {j \in 1..Len(s) : ~before[s[j]][x]}
        p == IF later = {} THEN Len(s) + 1
             ELSE CHOOSE j \in later : \A k \in later : j <= k
    IN  SubSeq(s, 1, p - 1) \o <<x>> \o SubSeq(s, p, Len(s))

\* list.sort(key=...): stable; before[x][y] says key(x) sorts strictly before key(y)
sort_insert(s, x, before) ==
    LET later == {j \in 1..Len(s) : before[x][s[j]]}
        p == IF later = {} THEN Len(s) + 1
             ELSE CHOOSE j \in later : \A k \in later : j <= k
    IN  SubSeq(s, 1, p - 1) \o <<x>> \o SubSeq(s, p, Len(s))

RECURSIVE list_sort(_, _)
list_sort(s, before) ==
    IF s = <<>> THEN <<>>
    ELSE sort_insert(list_sort(SubSeq(s, 1, Len(s) - 1), before), s[Len(s)], before)

\* random.shuffle: every permutation of the list
shuffle(s) ==
    {[i \in 1..Len(s) |-> s[p[i]]] :
        p \in {q \in [1..Len(s) -> 1..Len(s)] : \A i, j \in 1..Len(s) : q[i] = q[j] => i = j}}

\* The positions in ms of the events choose_matches can return, in order.
\* A position stands for the dict object at that place of the caller's list.
choose_matches(ms, mode, max_legs) ==
    LET idx == [i \in 1..Len(ms) |-> i]
        available == SelectSeq(idx, LAMBDA i : valid_leg(ms[i]))
        by_start == [x \in 1..Len(ms) |-> [y \in 1..Len(ms) |->
                        StrLess(ms[x].start_time, ms[y].start_time)]]
        by_odds_rev == [x \in 1..Len(ms) |-> [y \in 1..Len(ms) |->
                        ms[x].odds > ms[y].odds]]
    IN  IF available = <<>> THEN {<<>>}
        ELSE IF mode = "random" THEN {py_slice(a, max_legs) : a \in shuffle(available)}
        ELSE IF mode = "from_feed" THEN {py_slice(list_sort(available, by_start), max_legs)}
        ELSE {py_slice(list_sort(available, by_odds_rev), max_legs)}

\* ----------------------------------------------------------- MockBettingAPI
NetErr(seq) == Exc("MockAPIError", "Simulated transient network error", seq)

authenticate_unchecked(ss, u, p, seq) ==
    {[ok |-> FALSE, exc |-> NetErr(seq), val |-> NoToken, sessions |-> ss]}
    \cup {[ok |-> TRUE, exc |-> NoExc, val |-> t, sessions |-> (t :> u) @@ ss] : t \in Tokens}

\* outcomes of authenticate(username, password) in service state ss
authenticate(ss, u, p, seq) ==
    {[ok |-> FALSE, exc |-> NetErr(seq), val |-> NoToken, sessions |-> ss]}
    \cup
    IF u = "" \/ p = ""
    THEN {[ok |-> FALSE, exc |-> Exc("MockAPIError", "Invalid credentials", seq),
           val |-> NoToken, sessions |-> ss]}
    ELSE {[ok |-> TRUE, exc |-> NoExc, val |-> t, sessions |-> (t :> u) @@ ss] : t \in Tokens}

\* the lists get_available_matches can build
MatchLists ==
    {[i \in 1..NumMatches |->
        [match_id |-> i, start_time |-> IsoFormat(3 + i), odds |-> o[i], available |-> a[i]]] :
        o \in [1..NumMatches -> OddsValues], a \in [1..NumMatches -> BOOLEAN]}

get_available_matches(seq) ==
    {[ok |-> FALSE, exc |-> NetErr(seq), val |-> <<>>]}
    \cup {[ok |-> TRUE, exc |-> NoExc, val |-> ms] : ms \in MatchLists}

\* round(max(1.05, odds * uniform(0.90, 1.12)), 2) for the sampled factors
odds_change(o) == {Max(ODDS_FLOOR, RoundDiv(o * f, 100)) : f \in Factors}

\* the leg lists an odds-change event can leave behind: every leg is rewritten
changed_legs(legs) ==
    LET news == UNION {odds_change(legs[i].odds) : i \in 1..Len(legs)}
        picks == {n \in [1..Len(legs) -> news] :
                    \A i \in 1..Len(legs) : n[i] \in odds_change(legs[i].odds)}
    IN  {[i \in 1..Len(legs) |-> [legs[i] EXCEPT !.odds = n[i]]] : n \in picks}

\* the first leg the validation loop rejects, 0 when none
first_bad_leg(legs) ==
    LET bad == {i \in 1..Len(legs) : ~legs[i].available \/ legs[i].odds < MIN_ODDS}
    IN  IF bad = {} THEN 0 ELSE CHOOSE i \in bad : \A j \in bad : i <= j

accept_bet_stale_id(ss, bs, nid, token, legs, stk) ==
    LET bet_id == BetIdOf(nid)
        rec == [bet_id |-> BetIdOf(nid + 1), user |-> ss[token], legs |-> legs,
                stake |-> stk, status |-> "ACCEPTED"]
    IN  [ok |-> TRUE, exc |-> NoExc, val |-> [bet_id |-> bet_id, status |-> "ACCEPTED"],
         legs |-> legs, bets |-> (bet_id :> rec) @@ bs, next_bet_id |-> nid + 1,
         changed |-> FALSE]

\* the bet accepted for legs: id, record, and the service state after it
accept_bet(ss, bs, nid, token, legs, stk) ==
    LET bet_id == BetIdOf(nid)
        rec == [bet_id |-> bet_id, user |-> ss[token], legs |-> legs, stake |-> stk,
                status |-> "ACCEPTED"]
    IN  [ok |-> TRUE, exc |-> NoExc, val |-> [bet_id |-> bet_id, status |-> "ACCEPTED"],
         legs |-> legs, bets |-> (bet_id :> rec) @@ bs, next_bet_id |-> nid + 1,
         changed |-> FALSE]

reject_bet_recorded(bs, nid, legs, e, chg) ==
    [ok |-> FALSE, exc |-> e, val |-> [bet_id |-> NoBetId, status |-> ""],
     legs |-> legs, bets |-> (BetIdOf(nid) :> [NoBet EXCEPT !.legs = legs]) @@ bs,
     next_bet_id |-> nid + 1, changed |-> chg]

\* a rejected placement: the service state is as before the call
reject_bet(bs, nid, legs, e, chg) ==
    [ok |-> FALSE, exc |-> e, val |-> [bet_id |-> NoBetId, status |-> ""],
     legs |-> legs, bets |-> bs, next_bet_id |-> nid, changed |-> chg]

\* outcomes of place_accumulator(session_token, legs, stake); `legs` of an
\* outcome is the caller's list after the call (the service writes into it)
api_place_accumulator(ss, bs, nid, token, legs, stk, seq, may_change) ==
    {reject_bet(bs, nid, legs, NetErr(seq), FALSE)}
    \cup
    IF token \notin DOMAIN ss
    THEN {reject_bet(bs, nid, legs, Exc("MockAPIError", "Invalid session", seq), FALSE)}
    ELSE IF first_bad_leg(legs) # 0
    THEN {reject_bet(bs, nid, legs,
            Exc("MockAPIError",
                IF ~legs[first_bad_leg(legs)].available
                THEN "Leg unavailable at placement" ELSE "Leg odds too low", seq), FALSE)}
    ELSE {accept_bet(ss, bs, nid, token, legs, stk)}
         \cup
         IF may_change
         THEN UNION {{[accept_bet(ss, bs, nid, token, l2, stk) EXCEPT !.changed = TRUE],
                      reject_bet(bs, nid, l2,
                         Exc("MockAPIError", "Odds changed during placement - please retry", seq),
                         TRUE)} : l2 \in changed_legs(legs)}
         ELSE {}

\* outcomes of get_bet(bet_id)
get_bet(bs, bet_id, seq) ==
    {[ok |-> FALSE, exc |-> NetErr(seq), val |-> NoBet]}
    \cup
    IF bet_id \notin DOMAIN bs
    THEN {[ok |-> FALSE, exc |-> Exc("MockAPIError", "Bet not found", seq), val |-> NoBet]}
    ELSE {[ok |-> TRUE, exc |-> NoExc, val |-> bs[bet_id]]}

\* -------------------------------------------------------------------- state
VARIABLES
    username, password, stake, mode, max_legs,  \* the bot's configuration
    sessions, bets, next_bet_id,                \* MockBettingAPI
    session_token,                              \* AccumulatorBot
    pc,                                         \* position in run_once
    attempt, last_exc, rphase, max_retries,     \* the retry_on_exception frame
    matches, selected,                          \* locals of build_accumulator
    placement, placement_result, bet_info,      \* locals of run_once
    persisted,                                  \* lines of placed_bets.jsonl
    logged,                                     \* what run_once logged at error level
    run_result,                                 \* what run_once hands to its caller
    calls, returns, waits, odds_changes,        \* history: calls, returns, sleeps
    built_legs,                                 \* history: legs as build_accumulator made them
    fn_log,                                     \* history: what each call of fn did
    retry_out,                                  \* what retry_on_exception handed its caller
    selected_again,                             \* result of a second choose_matches call
    lockfile,                                   \* accumulator_bot.lock: absent, or the pid in it
    mpc,                                        \* position of each process in main
    acquired,                                   \* what acquire_lock returned to each process
    bot_outcome                                 \* how bot.run_once ended in each process

vars == <<username, password, stake, mode, max_legs, sessions, bets, next_bet_id,
          session_token, pc, attempt, last_exc, rphase, max_retries, matches, selected,
          placement, placement_result, bet_info, persisted, logged, run_result,
          calls, returns, waits, odds_changes, built_legs, fn_log, retry_out,
          selected_again, lockfile, mpc, acquired, bot_outcome>>

\* ------------------------------------------------------- retry_on_exception
retry_catch_first(e) ==
    [last_exc |-> IF last_exc = NoExc THEN e ELSE last_exc, rphase |-> "sleep"]

\* the except clause: remember the error, then back off
retry_catch(e) == [last_exc |-> e, rphase |-> "sleep"]

retry_after_sleep_extra(att, max) ==
    IF att <= max THEN [attempt |-> att + 1, rphase |-> "call"]
    ELSE [attempt |-> att, rphase |-> "raise"]

\* after time.sleep(wait): the next iteration of the for loop, or its end
retry_after_sleep(att, max) ==
    IF att < max THEN [attempt |-> att + 1, rphase |-> "call"]
    ELSE [attempt |-> att, rphase |-> "raise"]

Ops == {"authenticate", "get_available_matches", "place_accumulator", "get_bet", "fn"}

Running == [kind |-> "running", val |-> NoBet, exc |-> NoExc]
\* return None
ReturnedNone == [kind |-> "returned", val |-> NoBet, exc |-> NoExc]
NoOut == [kind |-> "none", val |-> "", exc |-> NoExc]

\* the state right after MockBettingAPI() and AccumulatorBot(api, u, p)
Fresh ==
    /\ sessions = <<>>
    /\ bets = <<>>
    /\ next_bet_id = FIRST_BET_ID
    /\ session_token = NoToken
    /\ attempt = 1
    /\ last_exc = NoExc
    /\ rphase = "call"
    /\ selected = <<>>
    /\ placement = NoPlacement
    /\ placement_result = [bet_id |-> NoBetId, status |-> ""]
    /\ bet_info = NoBet
    /\ persisted = <<>>
    /\ logged = NoExc
    /\ run_result = Running
    /\ calls = [o \in Ops |-> 0]
    /\ returns = [o \in Ops |-> 0]
    /\ waits = 0
    /\ odds_changes = 0
    /\ built_legs = <<>>
    /\ fn_log = <<>>
    /\ retry_out = NoOut
    /\ selected_again = <<>>

\* no process is inside main and there is no lock file
NoProcesses ==
    /\ lockfile = NoFile
    /\ mpc = [p \in Procs |-> "idle"]
    /\ acquired = [p \in Procs |-> "none"]
    /\ bot_outcome = [p \in Procs |-> "none"]

Init ==
    /\ Fresh
    /\ NoProcesses
    /\ username \in Usernames
    /\ password \in Passwords
    /\ stake \in Stakes
    /\ mode = MATCH_SELECTION_MODE
    /\ max_legs = MAX_LEGS
    /\ max_retries = MAX_RETRIES
    /\ matches = <<>>
    /\ pc = "login"

\* a new retry_on_exception(fn, MAX_RETRIES, ...) frame
NewFrame ==
    /\ attempt' = 1
    /\ last_exc' = NoExc
    /\ rphase' = "call"
    /\ max_retries' = MAX_RETRIES

\* the except clause of run_once: log and fall off the end of the function
RunFailed(e) ==
    /\ pc' = "done"
    /\ logged' = e
    /\ run_result' = ReturnedNone

Called(op) == calls' = [calls EXCEPT ![op] = @ + 1]
Returned(op) == returns' = [returns EXCEPT ![op] = @ + 1]

\* one attempt of api.authenticate inside login()
login ==
    /\ pc = "login" /\ rphase = "call"
    /\ Called("authenticate")
    /\ \E o \in authenticate(sessions, username, password, calls["authenticate"] + 1) :
        /\ sessions' = o.sessions
        /\ IF o.ok
           THEN /\ session_token' = o.val
                /\ Returned("authenticate")
                /\ pc' = "build"
                /\ NewFrame
           ELSE /\ last_exc' = retry_catch(o.exc).last_exc
                /\ rphase' = retry_catch(o.exc).rphase
                /\ UNCHANGED <<session_token, returns, pc, attempt, max_retries>>
    /\ UNCHANGED <<username, password, stake, mode, max_legs, selected_again, lockfile,
                   mpc, acquired, bot_outcome, bets, next_bet_id, matches,
                   selected, placement, placement_result, bet_info, persisted, logged,
                   run_result, waits, odds_changes, built_legs, fn_log, retry_out>>

\* one attempt of api.get_available_matches inside build_accumulator()
fetch_matches ==
    /\ pc = "build" /\ rphase = "call"
    /\ Called("get_available_matches")
    /\ \E o \in get_available_matches(calls["get_available_matches"] + 1) :
        IF o.ok
        THEN /\ matches' = o.val
             /\ Returned("get_available_matches")
             /\ pc' = "select"
             /\ UNCHANGED <<last_exc, rphase>>
        ELSE /\ last_exc' = retry_catch(o.exc).last_exc
             /\ rphase' = retry_catch(o.exc).rphase
             /\ UNCHANGED <<matches, returns, pc>>
    /\ UNCHANGED <<username, password, stake, mode, max_legs, selected_again, lockfile,
                   mpc, acquired, bot_outcome, sessions, bets, next_bet_id,
                   session_token, attempt, max_retries, selected, placement,
                   placement_result, bet_info, persisted, logged, run_result, waits,
                   odds_changes, built_legs, fn_log, retry_out>>

NotEnoughLegs == Exc("RuntimeError", "Not enough valid legs available to form an accumulator", 0)
NotAuthenticated == Exc("RuntimeError", "Not authenticated", 0)

too_few_legs_one(sel) == sel = <<>>

\* not selected or len(selected) < 2
too_few_legs(sel) == sel = <<>> \/ Len(sel) < 2

\* the legs_payload list comprehension
legs_payload(ms, sel) ==
    [k \in 1..Len(sel) |->
        [match_id |-> ms[sel[k]].match_id, odds |-> ms[sel[k]].odds,
         available |-> ms[sel[k]].available]]

\* the rest of build_accumulator() after the fetch, and, when it returns, the
\* guard of place_accumulator()
build_accumulator ==
    /\ pc = "select"
    /\ \E sel \in choose_matches(matches, mode, max_legs) :
        IF too_few_legs(sel)
        THEN /\ RunFailed(NotEnoughLegs)
             /\ UNCHANGED <<placement, built_legs, attempt, last_exc, rphase, max_retries>>
        ELSE /\ placement' = [legs |-> legs_payload(matches, sel), stake |-> stake]
             /\ built_legs' = legs_payload(matches, sel)
             /\ IF session_token = NoToken
                THEN /\ RunFailed(NotAuthenticated)
                     /\ UNCHANGED <<attempt, last_exc, rphase, max_retries>>
                ELSE /\ pc' = "place"
                     /\ NewFrame
                     /\ UNCHANGED <<logged, run_result>>
    /\ matches' = <<>>
    /\ UNCHANGED <<username, password, stake, mode, max_legs, selected_again, lockfile,
                   mpc, acquired, bot_outcome, sessions, bets, next_bet_id,
                   session_token, selected, placement_result, bet_info, persisted, calls,
                   returns, waits, odds_changes, fn_log, retry_out>>

NoBetIdReturned == Exc("", "No bet_id returned from placement", 0)

\* one attempt of api.place_accumulator inside place_accumulator(), and, when
\* it returns, the bet_id check of run_once
place_accumulator ==
    /\ pc = "place" /\ rphase = "call"
    /\ Called("place_accumulator")
    /\ \E o \in api_place_accumulator(sessions, bets, next_bet_id, session_token,
                    placement.legs, placement.stake, calls["place_accumulator"] + 1,
                    odds_changes < MaxOddsChanges) :
        /\ bets' = o.bets
        /\ next_bet_id' = o.next_bet_id
        /\ placement' = [placement EXCEPT !.legs = o.legs]
        /\ odds_changes' = IF o.changed THEN odds_changes + 1 ELSE odds_changes
        /\ IF o.ok
           THEN /\ placement_result' = o.val
                /\ Returned("place_accumulator")
                /\ IF o.val.bet_id = NoBetId
                   THEN /\ pc' = "done"
                        /\ logged' = NoBetIdReturned
                        /\ run_result' = ReturnedNone
                        /\ UNCHANGED <<attempt, last_exc, rphase, max_retries>>
                   ELSE /\ pc' = "confirm"
                        /\ NewFrame
                        /\ UNCHANGED <<logged, run_result>>
           ELSE /\ last_exc' = retry_catch(o.exc).last_exc
                /\ rphase' = retry_catch(o.exc).rphase
                /\ UNCHANGED <<placement_result, returns, pc, attempt, max_retries, logged,
                               run_result>>
    /\ UNCHANGED <<username, password, stake, mode, max_legs, selected_again, lockfile,
                   mpc, acquired, bot_outcome, sessions, session_token,
                   matches, selected, bet_info, persisted, waits, built_legs, fn_log,
                   retry_out>>

persist_bet_twice(file, info) == Append(Append(file, info), info)

\* _persist_bet: one more line in placed_bets.jsonl
persist_bet(file, info) == Append(file, info)

\* one attempt of api.get_bet inside confirm_bet(), and, when it returns, the
\* final report and _persist_bet
confirm_bet ==
    /\ pc = "confirm" /\ rphase = "call"
    /\ Called("get_bet")
    /\ \E o \in get_bet(bets, placement_result.bet_id, calls["get_bet"] + 1) :
        IF o.ok
        THEN /\ bet_info' = o.val
             /\ Returned("get_bet")
             /\ persisted' = persist_bet(persisted, o.val)
             /\ pc' = "done"
             /\ run_result' = ReturnedNone
             /\ UNCHANGED <<last_exc, rphase>>
        ELSE /\ last_exc' = retry_catch(o.exc).last_exc
             /\ rphase' = retry_catch(o.exc).rphase
             /\ UNCHANGED <<bet_info, returns, persisted, pc, run_result>>
    /\ UNCHANGED <<username, password, stake, mode, max_legs, selected_again, lockfile,
                   mpc, acquired, bot_outcome, sessions, bets, next_bet_id,
                   session_token, attempt, max_retries, matches, selected, placement,
                   placement_result, logged, waits, odds_changes, built_legs, fn_log,
                   retry_out>>

backoff_sleep_swallow ==
    /\ pc \in {"login", "build", "place", "confirm"} /\ rphase = "sleep"
    /\ waits' = waits + 1
    /\ LET r == retry_after_sleep(attempt, max_retries)
       IN  IF r.rphase = "call"
           THEN /\ attempt' = r.attempt
                /\ rphase' = "call"
                /\ UNCHANGED <<pc, logged, run_result, last_exc, max_retries>>
           ELSE IF pc = "login"
           THEN /\ pc' = "build"
                /\ NewFrame
                /\ UNCHANGED <<logged, run_result>>
           ELSE /\ RunFailed(last_exc)
                /\ UNCHANGED <<attempt, rphase, last_exc, max_retries>>
    /\ UNCHANGED <<username, password, stake, mode, max_legs, selected_again, lockfile,
                   mpc, acquired, bot_outcome, sessions, bets, next_bet_id,
                   session_token, matches, selected, placement,
                   placement_result, bet_info, persisted, calls, returns, odds_changes,
                   built_legs, fn_log, retry_out>>

\* time.sleep(wait) after a failed attempt, then the next attempt or, the loop
\* being over, raise last_exc into the except clause of run_once
backoff_sleep ==
    /\ pc \in {"login", "build", "place", "confirm"} /\ rphase = "sleep"
    /\ waits' = waits + 1
    /\ LET r == retry_after_sleep(attempt, max_retries)
       IN  IF r.rphase = "call"
           THEN /\ attempt' = r.attempt
                /\ rphase' = "call"
                /\ UNCHANGED <<pc, logged, run_result>>
           ELSE /\ RunFailed(last_exc)
                /\ UNCHANGED <<attempt, rphase>>
    /\ UNCHANGED <<username, password, stake, mode, max_legs, selected_again, lockfile,
                   mpc, acquired, bot_outcome, sessions, bets, next_bet_id,
                   session_token, last_exc, max_retries, matches, selected, placement,
                   placement_result, bet_info, persisted, calls, returns, odds_changes,
                   built_legs, fn_log, retry_out>>

Next ==
    \/ login
    \/ fetch_matches
    \/ build_accumulator
    \/ place_accumulator
    \/ confirm_bet
    \/ backoff_sleep

Spec == Init /\ [][Next]_vars

\* ------------------------------------- retry_on_exception(fn, max_retries)
\* fn is any operation: each call returns a value or raises a new exception
NotAnException == Exc("TypeError", "exceptions must derive from BaseException", 0)

InitRetry ==
    /\ Fresh
    /\ NoProcesses
    /\ username = "test_user"
    /\ password = "test_pass"
    /\ stake = 5
    /\ mode = MATCH_SELECTION_MODE
    /\ max_legs = MAX_LEGS
    /\ max_retries \in 0..MaxAttempts
    /\ matches = <<>>
    /\ pc = "fn"

\* range(1, max_retries + 1) is empty: the loop body never runs, raise None
fn_no_attempt ==
    /\ pc = "fn" /\ rphase = "call" /\ max_retries < 1
    /\ retry_out' = [kind |-> "raised", val |-> "", exc |-> NotAnException]
    /\ pc' = "fn_done"
    /\ UNCHANGED <<username, password, stake, mode, max_legs, selected_again, lockfile,
                   mpc, acquired, bot_outcome, sessions, bets, next_bet_id,
                   session_token, attempt, last_exc, rphase, max_retries, matches, selected,
                   placement, placement_result, bet_info, persisted, logged, run_result,
                   calls, returns, waits, odds_changes, built_legs, fn_log>>

\* one iteration of the loop: return fn(), or catch what it raised
fn_call ==
    /\ pc = "fn" /\ rphase = "call" /\ max_retries >= 1
    /\ Called("fn")
    /\ \/ \E v \in FnValues :
            /\ Returned("fn")
            /\ fn_log' = Append(fn_log, [ok |-> TRUE, val |-> v, exc |-> NoExc])
            /\ retry_out' = [kind |-> "returned", val |-> v, exc |-> NoExc]
            /\ pc' = "fn_done"
            /\ UNCHANGED <<last_exc, rphase>>
       \/ \E m \in FnErrors :
            LET e == Exc("Exception", m, calls["fn"] + 1)
            IN  /\ fn_log' = Append(fn_log, [ok |-> FALSE, val |-> "", exc |-> e])
                /\ last_exc' = retry_catch(e).last_exc
                /\ rphase' = retry_catch(e).rphase
                /\ UNCHANGED <<returns, retry_out, pc>>
    /\ UNCHANGED <<username, password, stake, mode, max_legs, selected_again, lockfile,
                   mpc, acquired, bot_outcome, sessions, bets, next_bet_id,
                   session_token, attempt, max_retries, matches, selected, placement,
                   placement_result, bet_info, persisted, logged, run_result, waits,
                   odds_changes, built_legs>>

\* time.sleep(wait), then the next iteration or raise last_exc to the caller
fn_sleep ==
    /\ pc = "fn" /\ rphase = "sleep"
    /\ waits' = waits + 1
    /\ LET r == retry_after_sleep(attempt, max_retries)
       IN  IF r.rphase = "call"
           THEN /\ attempt' = r.attempt
                /\ rphase' = "call"
                /\ UNCHANGED <<pc, retry_out>>
           ELSE /\ retry_out' = [kind |-> "raised", val |-> "", exc |-> last_exc]
                /\ pc' = "fn_done"
                /\ UNCHANGED <<attempt, rphase>>
    /\ UNCHANGED <<username, password, stake, mode, max_legs, selected_again, lockfile,
                   mpc, acquired, bot_outcome, sessions, bets, next_bet_id,
                   session_token, last_exc, max_retries, matches, selected, placement,
                   placement_result, bet_info, persisted, logged, run_result, calls,
                   returns, odds_changes, built_legs, fn_log>>

NextRetry ==
    \/ fn_no_attempt
    \/ fn_call
    \/ fn_sleep

SpecRetry == InitRetry /\ [][NextRetry]_vars

\* ------------------------------------ choose_matches(matches, mode, max_legs)
\* any list of up to MaxEvents events
EventLists ==
    UNION {[1..n -> [start_time : {IsoFormat(t) : t \in StartTimes},
                     odds : SelectOdds, available : BOOLEAN]] : n \in 0..MaxEvents}

InitSelect ==
    /\ Fresh
    /\ NoProcesses
    /\ username = "test_user"
    /\ password = "test_pass"
    /\ stake = 5
    /\ max_retries = MAX_RETRIES
    /\ \E evs \in EventLists :
        matches = [i \in 1..Len(evs) |->
                    [match_id |-> i, start_time |-> evs[i].start_time,
                     odds |-> evs[i].odds, available |-> evs[i].available]]
    /\ mode \in Modes
    /\ max_legs \in (-1)..MaxEvents
    /\ pc = "choose"

choose_effect_inplace(ms, md, n) ==
    LET idx == [i \in 1..Len(ms) |-> i]
        by_start == [x \in 1..Len(ms) |-> [y \in 1..Len(ms) |->
                        StrLess(ms[x].start_time, ms[y].start_time)]]
        by_odds_rev == [x \in 1..Len(ms) |-> [y \in 1..Len(ms) |->
                        ms[x].odds > ms[y].odds]]
        order == IF md = "from_feed" THEN list_sort(idx, by_start)
                 ELSE list_sort(idx, by_odds_rev)
    IN  {[selected |-> sel, matches |-> [i \in 1..Len(ms) |-> ms[order[i]]]] :
            sel \in choose_matches(ms, md, n)}

\* What a call leaves behind: its result, and the caller's list.  The filter
\* builds a new list `available`; shuffle and sort work on that one.
choose_effect(ms, md, n) ==
    {[selected |-> sel, matches |-> ms] : sel \in choose_matches(ms, md, n)}

\* selected = choose_matches(matches, mode, max_legs)
choose ==
    /\ pc = "choose"
    /\ \E r \in choose_effect(matches, mode, max_legs) :
        /\ selected' = r.selected
        /\ matches' = r.matches
    /\ pc' = "chosen"
    /\ UNCHANGED <<username, password, stake, mode, max_legs, selected_again, lockfile,
                   mpc, acquired, bot_outcome, sessions, bets, next_bet_id,
                   session_token, attempt, last_exc, rphase, max_retries,
                   placement, placement_result, bet_info, persisted, logged, run_result,
                   calls, returns, waits, odds_changes, built_legs, fn_log, retry_out>>

\* the same call once more, on the list as the first call left it
choose_again ==
    /\ pc = "chosen"
    /\ \E r \in choose_effect(matches, mode, max_legs) :
        /\ selected_again' = r.selected
        /\ matches' = r.matches
    /\ pc' = "chosen2"
    /\ UNCHANGED <<username, password, stake, mode, max_legs, selected, lockfile,
                   mpc, acquired, bot_outcome, sessions, bets, next_bet_id,
                   session_token, attempt, last_exc, rphase, max_retries,
                   placement, placement_result, bet_info, persisted, logged, run_result,
                   calls, returns, waits, odds_changes, built_legs, fn_log, retry_out>>

NextSelect ==
    \/ choose
    \/ choose_again

SpecSelect == InitSelect /\ [][NextSelect]_vars

\* --------------------------- build and place on a bot that never logged in
\* build_accumulator(stake), then place_accumulator(placement), called inside
\* the try block of run_once with login() left out
InitNoLogin ==
    /\ Fresh
    /\ NoProcesses
    /\ username = "test_user"
    /\ password = "test_pass"
    /\ stake \in Stakes
    /\ mode = MATCH_SELECTION_MODE
    /\ max_legs = MAX_LEGS
    /\ max_retries = MAX_RETRIES
    /\ matches = <<>>
    /\ pc = "build"

NextNoLogin ==
    \/ fetch_matches
    \/ build_accumulator
    \/ backoff_sleep

SpecNoLogin == InitNoLogin /\ [][NextNoLogin]_vars

\* ------------------------------- build_accumulator(stake, mode, legs_target)
\* login(), then build_accumulator with any mode and any legs_target, up to
\* the first placement call
InitBuild ==
    /\ Fresh
    /\ NoProcesses
    /\ username = "test_user"
    /\ password = "test_pass"
    /\ stake = 5
    /\ mode \in Modes
    /\ max_legs \in 0..NumMatches
    /\ max_retries = MAX_RETRIES
    /\ matches = <<>>
    /\ pc = "login"

NextBuild ==
    \/ login
    \/ fetch_matches
    \/ build_accumulator
    \/ backoff_sleep

SpecBuild == InitBuild /\ [][NextBuild]_vars

\* ------------------------------------------------- main and the lock file
\* Each process runs main once.  lockfile is NoFile while LOCKFILE does not
\* exist and otherwise the pid last written to it; no code reads the content.
\* A step is one file-system call with the local code after it, and the bot's
\* whole run is one step that leaves only its outcome: each process has its own
\* MockBettingAPI and AccumulatorBot, and none of their state is read here.
bot_vars == <<username, password, stake, mode, max_legs, sessions, bets, next_bet_id,
              session_token, pc, attempt, last_exc, rphase, max_retries, matches,
              selected, placement, placement_result, bet_info, persisted, logged,
              run_result, calls, returns, waits, odds_changes, built_legs, fn_log,
              retry_out, selected_again>>

\* how the try block of main ends: run_once returned after a Confirmed or a
\* Failed run, or an exception run_once does not catch (a BaseException such as
\* KeyboardInterrupt) left the block
BotOutcomes == {"confirmed", "failed", "escaped"}

InitLock ==
    /\ Fresh
    /\ username = "test_user"
    /\ password = "test_pass"
    /\ stake = 5
    /\ mode = MATCH_SELECTION_MODE
    /\ max_legs = MAX_LEGS
    /\ max_retries = MAX_RETRIES
    /\ matches = <<>>
    /\ pc = "main"
    /\ lockfile \in {NoFile, StalePid}
    /\ mpc = [p \in Procs |-> "idle"]
    /\ acquired = [p \in Procs |-> "none"]
    /\ bot_outcome = [p \in Procs |-> "none"]

\* the scheduler starts the script: main is entered
main_start(p) ==
    /\ mpc[p] = "idle"
    /\ mpc' = [mpc EXCEPT ![p] = "acquire"]
    /\ UNCHANGED <<lockfile, acquired, bot_outcome>>
    /\ UNCHANGED bot_vars

\* acquire_lock: os.path.exists(LOCKFILE); if it exists acquire_lock returns
\* False and main logs and returns
acquire_lock_exists(p) ==
    /\ mpc[p] = "acquire"
    /\ IF lockfile # NoFile
       THEN /\ acquired' = [acquired EXCEPT ![p] = "no"]
            /\ mpc' = [mpc EXCEPT ![p] = "done"]
       ELSE /\ mpc' = [mpc EXCEPT ![p] = "create"]
            /\ UNCHANGED acquired
    /\ UNCHANGED <<lockfile, bot_outcome>>
    /\ UNCHANGED bot_vars

\* acquire_lock: open(LOCKFILE, "w") creates or truncates the file, the pid is
\* written, acquire_lock returns True and main enters its try block
acquire_lock_open(p) ==
    /\ mpc[p] = "create"
    /\ lockfile' = p
    /\ acquired' = [acquired EXCEPT ![p] = "yes"]
    /\ mpc' = [mpc EXCEPT ![p] = "run"]
    /\ UNCHANGED bot_outcome
    /\ UNCHANGED bot_vars

main_try_no_finally(p) ==
    /\ mpc[p] = "run"
    /\ \E out \in BotOutcomes :
        /\ bot_outcome' = [bot_outcome EXCEPT ![p] = out]
        /\ mpc' = [mpc EXCEPT ![p] = IF out = "escaped" THEN "done" ELSE "release"]
    /\ UNCHANGED <<lockfile, acquired>>
    /\ UNCHANGED bot_vars

\* the try block of main: the bot is built and run; however the block ends,
\* the finally clause is next
main_try(p) ==
    /\ mpc[p] = "run"
    /\ \E out \in BotOutcomes :
        bot_outcome' = [bot_outcome EXCEPT ![p] = out]
    /\ mpc' = [mpc EXCEPT ![p] = "release"]
    /\ UNCHANGED <<lockfile, acquired>>
    /\ UNCHANGED bot_vars

\* release_lock: os.path.exists(LOCKFILE); with no file release_lock returns
\* and main is over
release_lock_exists(p) ==
    /\ mpc[p] = "release"
    /\ mpc' = [mpc EXCEPT ![p] = IF lockfile # NoFile THEN "remove" ELSE "done"]
    /\ UNCHANGED <<lockfile, acquired, bot_outcome>>
    /\ UNCHANGED bot_vars

\* release_lock: os.remove(LOCKFILE), whoever wrote the file; the
\* FileNotFoundError of a file removed in between is swallowed
release_lock_remove(p) ==
    /\ mpc[p] = "remove"
    /\ lockfile' = NoFile
    /\ mpc' = [mpc EXCEPT ![p] = "done"]
    /\ UNCHANGED <<acquired, bot_outcome>>
    /\ UNCHANGED bot_vars

NextLock ==
    \/ \E p \in Procs : main_start(p)
    \/ \E p \in Procs : acquire_lock_exists(p)
    \/ \E p \in Procs : acquire_lock_open(p)
    \/ \E p \in Procs : main_try(p)
    \/ \E p \in Procs : release_lock_exists(p)
    \/ \E p \in Procs : release_lock_remove(p)

SpecLock == InitLock /\ [][NextLock]_vars

\* ------------------------------------------------- the session's states
Confirmed == pc = "done" /\ returns["get_bet"] = 1
Failed == pc = "done" /\ returns["get_bet"] = 0
SessionState ==
    IF pc = "login" THEN "Unauthenticated"
    ELSE IF pc \in {"build", "select"} THEN "Authenticated"
    ELSE IF pc = "place" THEN "LegsBuilt"
    ELSE IF pc = "confirm" THEN "Placed"
    ELSE IF Confirmed THEN "Confirmed" ELSE "Failed"
Rank(st) ==
    CASE st = "Unauthenticated" -> 1
      [] st = "Authenticated" -> 2
      [] st = "LegsBuilt" -> 3
      [] st = "Placed" -> 4
      [] st = "Confirmed" -> 5
      [] OTHER -> 6
NumValid(ms) == Cardinality({i \in 1..Len(ms) : ms[i].available /\ ms[i].odds >= MIN_ODDS})

\* ------------------------------------------------------------------ claims

\* C1: in a run of run_once the service records at most one bet: a step that
\* is no successful placement leaves the bet table and the bet-id counter as
\* they were, a successful placement adds exactly one bet, and no placement
\* attempt is made once one has returned.
C1_AtMostOneBet ==
    [][/\ Cardinality(DOMAIN bets') <= 1
       /\ calls'["place_accumulator"] # calls["place_accumulator"]
            => returns["place_accumulator"] = 0
       /\ returns'["place_accumulator"] = returns["place_accumulator"]
            => bets' = bets /\ next_bet_id' = next_bet_id
       /\ returns'["place_accumulator"] # returns["place_accumulator"]
            => /\ Cardinality(DOMAIN bets') = Cardinality(DOMAIN bets) + 1
               /\ next_bet_id' = next_bet_id + 1]_vars

\* a placement accepted on the third attempt or later, after an odds-change rejection
C1_Witness ==
    /\ returns["place_accumulator"] = 1
    /\ calls["place_accumulator"] >= 3
    /\ odds_changes >= 1
    /\ placement.legs # built_legs
    /\ Cardinality(DOMAIN bets) = 1

\* C2: with max_retries >= 1, when fn fails k < max_retries times and then
\* succeeds, retry_on_exception returns that value after exactly k + 1 calls
\* and fn is not called again.
C2_ReturnsAfterKFailures ==
    max_retries >= 1 =>
        \A n \in 1..Len(fn_log) :
            /\ n < Len(fn_log) => ~fn_log[n].ok
            /\ fn_log[n].ok =>
                /\ n <= max_retries
                /\ retry_out = [kind |-> "returned", val |-> fn_log[n].val, exc |-> NoExc]
                /\ calls["fn"] = n
                /\ pc = "fn_done"

\* returned after three failures
C2_Witness ==
    /\ retry_out.kind = "returned"
    /\ Len(fn_log) = 4
    /\ max_retries >= 4

\* C3: with max_retries >= 1, when fn fails on every call, retry_on_exception
\* calls it exactly max_retries times and raises the exception object of the
\* last call.
C3_RaisesLastError ==
    (max_retries >= 1 /\ retry_out.kind = "raised") =>
        /\ calls["fn"] = max_retries
        /\ Len(fn_log) = max_retries
        /\ \A n \in 1..Len(fn_log) : ~fn_log[n].ok
        /\ retry_out.exc = fn_log[max_retries].exc
        /\ \A n \in 1..(max_retries - 1) : retry_out.exc # fn_log[n].exc

\* exhausted after three or more calls whose first and last errors differ
C3_Witness ==
    /\ retry_out.kind = "raised"
    /\ max_retries >= 3
    /\ Len(fn_log) = max_retries
    /\ fn_log[1].exc.msg # fn_log[max_retries].exc.msg

\* C4: a placement whose stake is 0 or negative never reaches the service:
\* no place_accumulator call is made and no bet is recorded.
C4_StakeGuard ==
    stake <= 0 => calls["place_accumulator"] = 0 /\ DOMAIN bets = {}

\* C5: run_once ends by returning the confirmed record (Confirmed) or by
\* raising an error to its caller (Failed).
C5_ReturnsOrRaises ==
    pc = "done" =>
        \/ Confirmed /\ run_result = [kind |-> "returned", val |-> bet_info, exc |-> NoExc]
        \/ Failed /\ run_result.kind = "raised"

\* C6: a run persists exactly one record when it ends Confirmed, after each of
\* the four remote operations returned, and none otherwise; the record is
\* the one get_bet returned.
C6_PersistOnce ==
    /\ Confirmed =>
        /\ persisted = <<bet_info>>
        /\ bet_info = bets[placement_result.bet_id]
        /\ \A op \in Ops \ {"fn"} : returns[op] = 1
    /\ ~Confirmed => persisted = <<>>

\* confirmed after the first get_bet attempt failed
C6_Witness ==
    /\ Confirmed
    /\ Len(persisted) = 1
    /\ calls["get_bet"] >= 2

\* a remote operation is first called only after the one before it returned
CallOrder ==
    /\ calls["get_available_matches"] > 0 => returns["authenticate"] = 1
    /\ calls["place_accumulator"] > 0
        => returns["get_available_matches"] = 1 /\ Len(built_legs) >= 2
    /\ calls["get_bet"] > 0 => returns["place_accumulator"] = 1

\* C7: the session advances one state at a time in the order Unauthenticated,
\* Authenticated, LegsBuilt, Placed, Confirmed, or drops to Failed; a remote
\* operation is first called only after the one before it returned; and after
\* Failed (or Confirmed) nothing more is called.
C7_StrictSequence ==
    [][/\ CallOrder'
       /\ \/ SessionState' = SessionState
          \/ Rank(SessionState') = Rank(SessionState) + 1 /\ SessionState' # "Failed"
          \/ SessionState' = "Failed" /\ SessionState \notin {"Confirmed", "Failed"}
       /\ pc # "done"]_vars

\* failed in placement after the earlier steps succeeded
C7_Witness ==
    /\ Failed
    /\ returns["authenticate"] = 1
    /\ returns["get_available_matches"] = 1
    /\ calls["place_accumulator"] = MAX_RETRIES
    /\ calls["get_bet"] = 0

\* C8: for max_legs >= 0 and any mode, choose_matches returns at most max_legs
\* events, each one an event of the input that is available with odds >=
\* MIN_ODDS, and none twice.
C8_SelectedValid ==
    (pc = "chosen" /\ max_legs >= 0) =>
        /\ Len(selected) <= max_legs
        /\ \A k \in 1..Len(selected) :
            /\ selected[k] \in 1..Len(matches)
            /\ matches[selected[k]].available
            /\ matches[selected[k]].odds >= MIN_ODDS
        /\ \A k, l \in 1..Len(selected) : selected[k] = selected[l] => k = l

\* a random selection cut to max_legs from a list holding a low-odds event
C8_Witness ==
    /\ pc = "chosen"
    /\ mode = "random"
    /\ max_legs = 2
    /\ Len(selected) = 2
    /\ NumValid(matches) = 3
    /\ selected[1] > selected[2]

\* the order choose_matches must produce: by key, equal keys in input order
TimeOf(s) == 10 * s[1] + s[2]
SortsBefore(a, b) ==
    IF mode = "from_feed"
    THEN \/ TimeOf(matches[a].start_time) < TimeOf(matches[b].start_time)
         \/ TimeOf(matches[a].start_time) = TimeOf(matches[b].start_time) /\ a < b
    ELSE \/ matches[a].odds > matches[b].odds
         \/ matches[a].odds = matches[b].odds /\ a < b

\* C9: for max_legs >= 0, mode top returns the first min(max_legs, n) of the
\* n filtered events in odds-descending order and mode from_feed in
\* start-time-ascending order, events with equal keys in input order.
C9_SortedPrefix ==
    (pc = "chosen" /\ mode # "random" /\ max_legs >= 0) =>
        LET valid == {i \in 1..Len(matches) : matches[i].available /\ matches[i].odds >= MIN_ODDS}
        IN  /\ Len(selected) = Min(max_legs, Cardinality(valid))
            /\ Range(selected) \subseteq valid
            /\ \A k, l \in 1..Len(selected) : k < l => SortsBefore(selected[k], selected[l])
            /\ \A i \in valid \ Range(selected) :
                    \A k \in 1..Len(selected) : SortsBefore(selected[k], i)

\* top with two events of equal odds behind a higher one, cut to two
C9_Witness ==
    /\ pc = "chosen"
    /\ mode = "top"
    /\ max_legs = 2
    /\ Len(matches) = 3
    /\ NumValid(matches) = 3
    /\ matches[1].odds = matches[2].odds
    /\ matches[3].odds > matches[1].odds
    /\ selected = <<3, 1>>

\* C10: when fewer than 2 fetched events are available with odds >= MIN_ODDS,
\* build_accumulator raises at once, with no further fetch, sleep or any
\* other call, and the run ends there without a placement call.
C10_NotEnoughLegs ==
    [][/\ (pc = "select" /\ NumValid(matches) < 2)
            => /\ pc' = "done"
               /\ logged' = NotEnoughLegs
               /\ calls' = calls
               /\ waits' = waits
       /\ logged # NotEnoughLegs
       /\ logged' = NotEnoughLegs => calls'["place_accumulator"] = 0]_vars

\* a run that failed for want of legs after one fetch had to be retried
C10_Witness ==
    /\ pc = "done"
    /\ logged = NotEnoughLegs
    /\ calls["get_available_matches"] >= 2
    /\ calls["place_accumulator"] = 0

\* C11: on a bot whose session_token is unset, build_accumulator and
\* place_accumulator raise at once: no list-events call and no placement call
\* is made.
C11_TokenGuard ==
    session_token = NoToken =>
        /\ calls["get_available_matches"] = 0
        /\ calls["place_accumulator"] = 0

\* C12: in a Confirmed run the record confirm_bet returned carries the bet
\* identifier the placement returned, and it is the record the service stored
\* under that identifier for this run's user, stake and legs.
C12_ConfirmedIsPlaced ==
    Confirmed =>
        /\ bet_info.bet_id = placement_result.bet_id
        /\ placement_result.bet_id = BetIdOf(FIRST_BET_ID)
        /\ DOMAIN bets = {placement_result.bet_id}
        /\ bets[placement_result.bet_id] = bet_info
        /\ bet_info.user = username
        /\ bet_info.stake = stake
        /\ bet_info.legs = placement.legs

\* confirmed on a later get_bet attempt, the bet placed on a retried attempt
C12_Witness ==
    /\ Confirmed
    /\ calls["place_accumulator"] >= 2
    /\ calls["get_bet"] >= 2
    /\ bet_info.bet_id = BetIdOf(FIRST_BET_ID)

\* C14: retry_on_exception sleeps only between attempts: fn failing on all
\* max_retries attempts causes max_retries - 1 sleeps, and a success after k
\* failures k sleeps.
C14_WaitsBetweenAttempts ==
    max_retries >= 1 =>
        /\ retry_out.kind = "raised" => waits = max_retries - 1
        /\ retry_out.kind = "returned" => waits = calls["fn"] - 1

\* C15: every placement attempt of a run is made with the legs as
\* build_accumulator built them: same legs, order, odds and availability.
C15_OriginalSnapshot ==
    (pc = "place" /\ rphase = "call") => placement.legs = built_legs

\* C16: with an empty username or password the service's authenticate is
\* called MAX_RETRIES times, each failure retried, then the run is Failed;
\* session_token stays unset and no other remote operation is called.
C16_InvalidCredentials ==
    (username = "" \/ password = "") =>
        /\ session_token = NoToken
        /\ sessions = <<>>
        /\ calls["get_available_matches"] = 0
        /\ calls["place_accumulator"] = 0
        /\ calls["get_bet"] = 0
        /\ returns["authenticate"] = 0
        /\ pc \in {"login", "done"}
        /\ pc = "login" =>
            /\ calls["authenticate"] = IF rphase = "call" THEN attempt - 1 ELSE attempt
            /\ attempt <= MAX_RETRIES
        /\ pc = "done" =>
            /\ Failed
            /\ calls["authenticate"] = MAX_RETRIES
            /\ waits = MAX_RETRIES
            /\ logged.cls = "MockAPIError"
            /\ logged.seq = MAX_RETRIES

\* failed on "Invalid credentials" after MAX_RETRIES calls
C16_Witness ==
    /\ username = ""
    /\ pc = "done"
    /\ calls["authenticate"] = MAX_RETRIES
    /\ logged.msg = "Invalid credentials"

\* C13: a call of choose_matches leaves the caller's list as it was, and with
\* a mode other than random a second call with the same arguments returns the
\* same events in the same order as the first.
C13_Idempotent ==
    [][/\ pc \in {"choose", "chosen"} => matches' = matches
       /\ (pc' = "chosen2" /\ mode # "random") =>
            /\ selected_again' = selected'
            /\ [k \in 1..Len(selected_again') |-> matches'[selected_again'[k]]]
                 = [k \in 1..Len(selected) |-> matches[selected[k]]]]_vars

\* two calls in mode top on a list whose order the sort has to change
C13_Witness ==
    /\ pc = "chosen2"
    /\ mode = "top"
    /\ Len(selected) >= 2
    /\ selected[1] > selected[2]
    /\ selected_again = selected

\* the four remote operations of a run
RemoteOps == Ops \ {"fn"}
TotalCalls ==
    calls["authenticate"] + calls["get_available_matches"]
        + calls["place_accumulator"] + calls["get_bet"]

\* how far a run is from its end: the steps left in the worst case.  A stage
\* is at most MAX_RETRIES calls and MAX_RETRIES sleeps long.
StageOf(p) ==
    CASE p = "login" -> 0
      [] p = "build" -> 1
      [] p = "select" -> 2
      [] p = "place" -> 3
      [] p = "confirm" -> 4
      [] OTHER -> 5
StepsLeft ==
    IF pc = "done" THEN 0
    ELSE (5 - StageOf(pc)) * (2 * MAX_RETRIES + 1)
            - (2 * (attempt - 1) + (IF rphase = "sleep" THEN 1 ELSE 0))

\* C17: a run of run_once, each call of which returns or raises, ends, in
\* Confirmed or in Failed and not both: while it has not ended it has a next
\* step (the local step of build_accumulator has one for each result of
\* choose_matches), and every step brings the end nearer.  No remote operation is
\* attempted more than MAX_RETRIES times, at most 4 * MAX_RETRIES calls in all.
C17_Terminates ==
    /\ [](/\ \A op \in RemoteOps : calls[op] <= MAX_RETRIES
          /\ TotalCalls <= 4 * MAX_RETRIES
          /\ StepsLeft >= 0
          /\ pc \notin {"done", "select"} => ENABLED Next
          /\ pc = "select" => choose_matches(matches, mode, max_legs) # {}
          /\ pc = "done" => Confirmed # Failed)
    /\ [][StepsLeft' < StepsLeft]_vars

\* a run that used every attempt of every operation
C17_Witness ==
    /\ pc = "done"
    /\ \A op \in RemoteOps : calls[op] = MAX_RETRIES
    /\ TotalCalls = 4 * MAX_RETRIES

\* C18: the placement build_accumulator returns, which is the placement the
\* first placement call is made with, holds at least 2 and at most max_legs
\* legs; the legs are distinct events of the fetched list, each available with
\* odds >= MIN_ODDS there, carried with the odds and availability they have in
\* that list, and for a mode other than random in the order of the selection.
C18_PlacementLegs ==
    [][(pc = "select" /\ pc' = "place") =>
        LET legs == placement'.legs
        IN  /\ Len(legs) >= 2
            /\ Len(legs) <= max_legs
            /\ built_legs' = legs
            /\ attempt' = 1 /\ rphase' = "call"
            /\ \E f \in [1..Len(legs) -> 1..Len(matches)] :
                /\ \A k, l \in 1..Len(legs) : f[k] = f[l] => k = l
                /\ \A k \in 1..Len(legs) :
                    /\ matches[f[k]].available
                    /\ matches[f[k]].odds >= MIN_ODDS
                    /\ legs[k] = [match_id |-> matches[f[k]].match_id,
                                  odds |-> matches[f[k]].odds,
                                  available |-> matches[f[k]].available]
                /\ mode # "random" =>
                    \A k, l \in 1..Len(legs) : k < l => SortsBefore(f[k], f[l])]_vars

\* build_accumulator returned a placement of max_legs legs, fewer than the
\* events the service listed
C18_Witness ==
    /\ pc = "place"
    /\ calls["place_accumulator"] = 0
    /\ max_legs < NumMatches
    /\ Len(placement.legs) = max_legs
    /\ placement.legs = built_legs

\* C19: of the processes running main at the same time, at most one is
\* between a True from acquire_lock and the end of its release_lock, so at
\* most one runs the bot while the lock is held.
C19_SingleInstance ==
    Cardinality({p \in Procs : acquired[p] = "yes" /\ mpc[p] # "done"}) <= 1

\* C20: a process that got True from acquire_lock ends main only out of
\* release_lock, after its try block ended in one of the three ways, and with
\* no lock file left at that moment; a process that got False ends main at
\* once, and no step it takes changes the lock file.
C20_ReleaseOnExit ==
    [][\A p \in Procs :
        /\ (mpc[p] # "done" /\ mpc'[p] = "done" /\ acquired'[p] = "yes") =>
            /\ mpc[p] \in {"release", "remove"}
            /\ bot_outcome[p] \in BotOutcomes
            /\ lockfile' = NoFile
        /\ (mpc[p] # mpc'[p] /\ acquired'[p] = "no") =>
            /\ lockfile' = lockfile
            /\ mpc'[p] = "done"
        /\ (mpc[p] = "done" /\ acquired[p] # "yes") => acquired[p] = "no"]_vars

\* a process left main by an exception and removed the lock file it had
\* created, while another one had been turned away by that file
C20_Witness ==
    \E p, q \in Procs :
        /\ mpc[p] = "done" /\ acquired[p] = "yes" /\ bot_outcome[p] = "escaped"
        /\ mpc[q] = "done" /\ acquired[q] = "no" /\ bot_outcome[q] = "none"
        /\ lockfile = NoFile

====
